---- MODULE Spec2Model ----
(***************************************************************************)
(* YOLOv5 post-processing (src/src/yolov5/mod.rs, src/src/yolo/utils.rs):  *)
(* the DetectionBoxes container, the decoder box_decode, the suppressor    *)
(* nms and the pipeline postprocess / eval.                                *)
(*                                                                         *)
(* Numbers.  The program computes in f32; the model computes the same      *)
(* expressions exactly, on integers that stand for fixed-point values:     *)
(*   raw box offsets bx, by, bw, bh   in units of 1/RAW_DEN,               *)
(*   objectness, class confidences and conf_threshold in 1/CONF_DEN,       *)
(*   scores                            in units of 1/(CONF_DEN*CONF_DEN),  *)
(*   box coordinates                   in units of 1/COORD_DEN pixel,      *)
(*   iou_threshold                     in units of 1/THR_DEN,              *)
(*   epsilon                           in units of 1/EPS_DEN pixel^2.      *)
(* f32 rounding, NaN and infinities are not modelled.                      *)
(***************************************************************************)
EXTENDS Integers, Sequences, FiniteSets, Bags, TLC

VARIABLES db, lastOp, nmsCall, pp, evalCall

vars == <<db, lastOp, nmsCall, pp, evalCall>>

(***************************************************************************)
(* Units of the fixed-point representation.                                *)
(***************************************************************************)
RAW_DEN == 2
CONF_DEN == 10
COORD_DEN == 2
THR_DEN == 10
EPS_DEN == 100000

(***************************************************************************)
(* Bounds of the model.                                                    *)
(***************************************************************************)
\* most rows a DetectionBoxes under test grows to
MaxRows == 3

Max(a, b) == IF a >= b THEN a ELSE b
Min(a, b) == IF a <= b THEN a ELSE b

Fields == <<"x1", "y1", "x2", "y2", "scores", "classes">>

(***************************************************************************)
(* src/src/yolo/utils.rs: DetectionBoxes                                   *)
(***************************************************************************)
\* DetectionBoxes::empty
empty ==
    [x1 |-> <<>>, y1 |-> <<>>, x2 |-> <<>>, y2 |-> <<>>,
     scores |-> <<>>, classes |-> <<>>, len |-> 0]

\* DetectionBoxes::new: len is taken from x1, nothing is compared
new(x1, y1, x2, y2, scores, classes) ==
    [x1 |-> x1, y1 |-> y1, x2 |-> x2, y2 |-> y2,
     scores |-> scores, classes |-> classes, len |-> Len(x1)]

\* DetectionBoxes::append: len grows by x1.len(), each array by its argument
append(self, x1, y1, x2, y2, scores, classes) ==
    [x1 |-> self.x1 \o x1, y1 |-> self.y1 \o y1,
     x2 |-> self.x2 \o x2, y2 |-> self.y2 \o y2,
     scores |-> self.scores \o scores, classes |-> self.classes \o classes,
     len |-> self.len + Len(x1)]

\* the permutations of 1..n
Perms(n) == {p \in [1..n -> 1..n] : \A i, j \in 1..n : i # j => p[i] # p[j]}

\* indices.sort_unstable_by(|a, b| scores[b].partial_cmp(scores[a])): every
\* order of 1..n with non-increasing scores (the order of ties is
\* whatever the unstable sort leaves)
DescendingOrders(scores, n) ==
    {p \in Perms(n) : \A i \in 1..(n - 1) : scores[p[i]] >= scores[p[i + 1]]}

\* indices.truncate(len)
Truncate(s, k) == SubSeq(s, 1, Min(k, Len(s)))

\* indices.reverse()
Reverse(s) == [i \in 1..Len(s) |-> s[Len(s) + 1 - i]]

\* TrimIndices without the reverse of line 71
TrimIndicesNoReverse(order, k) == Truncate(order, k)

\* sort_by_score_and_trim, lines 68-71: the index vector that is selected
TrimIndices(order, k) == Reverse(Truncate(order, k))

\* array.select(Axis(0), indices)
Select(arr, idx) == [i \in 1..Len(idx) |-> arr[idx[i]]]

\* select panics on an index outside the array
SelectPanics(arr, idx) == \E i \in 1..Len(idx) : idx[i] > Len(arr)

\* the position in Fields of the first array whose select panics (7: none)
FirstPanic(self, idx) ==
    IF \E f \in 1..6 : SelectPanics(self[Fields[f]], idx)
    THEN CHOOSE f \in 1..6 :
            /\ SelectPanics(self[Fields[f]], idx)
            /\ \A g \in 1..(f - 1) : ~SelectPanics(self[Fields[g]], idx)
    ELSE 7

\* sort_by_score_and_trim, lines 73-78: the arrays are replaced one after the
\* other, up to the first select that panics; the field len is not assigned
SelectRows(self, idx) ==
    LET stop == FirstPanic(self, idx)
        Upd(f) == IF f < stop THEN Select(self[Fields[f]], idx) ELSE self[Fields[f]]
    IN [x1 |-> Upd(1), y1 |-> Upd(2), x2 |-> Upd(3), y2 |-> Upd(4),
        scores |-> Upd(5), classes |-> Upd(6), len |-> self.len]

\* the comparator indexes scores with every index of 0..self.len once the
\* sort has two elements to compare
SortPanics(self) == self.len >= 2 /\ self.len > Len(self.scores)

(***************************************************************************)
(* Inputs of the container operations.                                     *)
(***************************************************************************)
Row(x1, y1, x2, y2, score, class) ==
    [x1 |-> x1, y1 |-> y1, x2 |-> x2, y2 |-> y2, score |-> score, class |-> class]

\* rows handed to new / append: two rows tie on the score
ArgRows ==
    { Row(0, 0, 20, 20, 50, 0),
      Row(10, 0, 30, 20, 50, 1),
      Row(0, 0, 20, 20, 81, 0) }

SeqsUpTo(S, n) == UNION {[1..k -> S] : k \in 0..n}

Column(rows, f) ==
    [i \in 1..Len(rows) |->
        CASE f = 1 -> rows[i].x1 [] f = 2 -> rows[i].y1 [] f = 3 -> rows[i].x2
          [] f = 4 -> rows[i].y2 [] f = 5 -> rows[i].score [] OTHER -> rows[i].class]

\* six argument arrays: the columns of a row sequence, the array at position
\* short (0: none) one element shorter than the others
ArgArrays(rows, short) ==
    [f \in 1..6 |->
        IF f = short /\ Len(rows) > 0
        THEN SubSeq(Column(rows, f), 1, Len(rows) - 1)
        ELSE Column(rows, f)]

EqualLengths(a) == \A f \in 1..6 : Len(a[f]) = Len(a[1])

\* which array of the arguments is the short one (0: none)
Shorts == {0, 5}

\* the last operation on the container under test: its name, the k of
\* sort_by_score_and_trim, whether the argument arrays of new / append had
\* equal lengths, the container before a sort_by_score_and_trim, and how
\* the operation ended
NoOp == [op |-> "none", k |-> 0, equal |-> TRUE, pre |-> empty, status |-> "ok"]

(***************************************************************************)
(* Actions on the container under test.                                    *)
(***************************************************************************)
DbEmpty ==
    /\ db' = empty
    /\ lastOp' = [op |-> "empty", k |-> 0, equal |-> TRUE, pre |-> empty, status |-> "ok"]
    /\ UNCHANGED <<nmsCall, pp, evalCall>>

DbNew ==
    \E rows \in SeqsUpTo(ArgRows, MaxRows), short \in Shorts :
        LET a == ArgArrays(rows, short) IN
        /\ db' = new(a[1], a[2], a[3], a[4], a[5], a[6])
        /\ lastOp' = [op |-> "new", k |-> 0, equal |-> EqualLengths(a),
                      pre |-> empty, status |-> "ok"]
        /\ UNCHANGED <<nmsCall, pp, evalCall>>

DbAppend ==
    \E rows \in SeqsUpTo(ArgRows, MaxRows), short \in Shorts :
        LET a == ArgArrays(rows, short) IN
        /\ db.len + Len(a[1]) <= MaxRows
        /\ \A f \in 1..6 : Len(db[Fields[f]]) + Len(a[f]) <= MaxRows
        /\ db' = append(db, a[1], a[2], a[3], a[4], a[5], a[6])
        /\ lastOp' = [op |-> "append", k |-> 0, equal |-> EqualLengths(a),
                      pre |-> empty, status |-> "ok"]
        /\ UNCHANGED <<nmsCall, pp, evalCall>>

DbSortTrim ==
    \E k \in 0..MaxRows :
        /\ \/ /\ SortPanics(db)
              /\ db' = db
              /\ lastOp' = [op |-> "sort_by_score_and_trim", k |-> k, equal |-> TRUE,
                            pre |-> db, status |-> "panic"]
           \/ /\ ~SortPanics(db)
              /\ \E order \in DescendingOrders(db.scores, IF db.len >= 2 THEN db.len ELSE 0) :
                    LET full == IF db.len >= 2 THEN order ELSE [i \in 1..db.len |-> i]
                        idx == TrimIndices(full, k)
                    IN /\ db' = SelectRows(db, idx)
                       /\ lastOp' = [op |-> "sort_by_score_and_trim", k |-> k,
                                     equal |-> TRUE, pre |-> db,
                                     status |-> IF FirstPanic(db, idx) = 7
                                                THEN "ok" ELSE "panic"]
        /\ UNCHANGED <<nmsCall, pp, evalCall>>

IdleNms == [state |-> "idle"]
NoInstance == [state |-> "none"]
IdleEval == [state |-> "idle"]

InitBoxes ==
    /\ db = empty
    /\ lastOp = NoOp
    /\ nmsCall = IdleNms
    /\ pp = NoInstance
    /\ evalCall = IdleEval

NextBoxes == DbEmpty \/ DbNew \/ DbAppend \/ DbSortTrim

SpecBoxes == InitBoxes /\ [][NextBoxes]_vars

\* the six arrays of a set have the length its field len states
WellFormed(boxes) == \A f \in 1..6 : Len(boxes[Fields[f]]) = boxes.len

RowAt(boxes, i) ==
    Row(boxes.x1[i], boxes.y1[i], boxes.x2[i], boxes.y2[i], boxes.scores[i], boxes.classes[i])

\* the rows of a set whose arrays have equal lengths, as a bag
RowBag(boxes) ==
    LET n == Len(boxes.scores)
        rows == {RowAt(boxes, i) : i \in 1..n}
    IN [r \in rows |-> Cardinality({i \in 1..n : RowAt(boxes, i) = r})]

\* C6: after any sequence of empty, new, append and sort_by_score_and_trim the
\* six parallel arrays have one length and the field len equals it, and new
\* on arrays of unequal length fails instead of producing a set.
ParallelArraysInSync ==
    /\ WellFormed(db)
    /\ (lastOp.op = "new" /\ ~lastOp.equal) => lastOp.status # "ok"

\* C7: sort_by_score_and_trim(k) on a set of n >= k rows leaves exactly k
\* rows, in ascending score order, each of them a row of the original set
\* (coordinates and class id kept), and no dropped row scores higher than a
\* kept one: the kept scores are the k largest.
SortTrimKeepsTopK ==
    (/\ lastOp.op = "sort_by_score_and_trim"
     /\ WellFormed(lastOp.pre)
     /\ lastOp.pre.len >= lastOp.k)
    => /\ lastOp.status = "ok"
       /\ \A f \in 1..6 : Len(db[Fields[f]]) = lastOp.k
       /\ \A i \in 1..(lastOp.k - 1) : db.scores[i] <= db.scores[i + 1]
       /\ RowBag(db) \sqsubseteq RowBag(lastOp.pre)
       /\ \A d \in BagToSet(RowBag(lastOp.pre) (-) RowBag(db)) :
            \A i \in 1..lastOp.k : d.score <= db.scores[i]

\* a trim of three rows to two that drops one of two tied rows and leaves the
\* lower kept score first
SortTrimWitness ==
    /\ lastOp.op = "sort_by_score_and_trim"
    /\ lastOp.status = "ok"
    /\ WellFormed(lastOp.pre)
    /\ lastOp.pre.len = 3
    /\ lastOp.k = 2
    /\ \E i, j \in 1..3 :
          /\ i # j
          /\ lastOp.pre.scores[i] = lastOp.pre.scores[j]
          /\ lastOp.pre.classes[i] # lastOp.pre.classes[j]
    /\ Len(db.scores) = 2
    /\ db.scores[1] < db.scores[2]

(***************************************************************************)
(* src/src/yolov5/mod.rs: RustPostprocessor::nms                           *)
(***************************************************************************)
\* const MAX_BOXES: usize = 300 of nms
NMS_MAX_BOXES == 300
\* const MAX_WH: f32 = 7680., in pixels
MAX_WH == 7680
\* epsilon.unwrap_or(1e-5), in units of 1/EPS_DEN
DEFAULT_EPSILON == 1

\* Option<T>: None and Some(v)
None == [some |-> FALSE]
Some(v) == [some |-> TRUE, v |-> v]

\* Option::unwrap_or
UnwrapOr(opt, default) == IF opt.some THEN opt.v ELSE default

\* lines 136-140: the per-box offset c, zero in agnostic mode
ClassOffset(boxes, agnostic) ==
    [i \in 1..boxes.len |->
        IF agnostic THEN 0 ELSE boxes.classes[i] * MAX_WH * COORD_DEN]

\* lines 141-144: the offset coordinates
OffsetBoxes(boxes, agnostic) ==
    LET c == ClassOffset(boxes, agnostic) IN
    [x1 |-> [i \in 1..boxes.len |-> boxes.x1[i] + c[i]],
     y1 |-> [i \in 1..boxes.len |-> boxes.y1[i] + c[i]],
     x2 |-> [i \in 1..boxes.len |-> boxes.x2[i] + c[i]],
     y2 |-> [i \in 1..boxes.len |-> boxes.y2[i] + c[i]]]

\* lines 149-151: the clamped areas
Areas(o) ==
    [i \in 1..Len(o.x1) |-> Max(0, o.x2[i] - o.x1[i]) * Max(0, o.y2[i] - o.y1[i])]

\* lines 154-158: indices.sort_unstable_by on ascending score: every order of
\* 1..n with non-decreasing scores
AscendingOrders(scores, n) ==
    {p \in Perms(n) : \A i \in 1..(n - 1) : scores[p[i]] <= scores[p[i + 1]]}

\* lines 166-186: widths * heights of the accepted box cur and the box i
Intersection(o, cur, i) ==
    Max(0, Min(o.x2[cur], o.x2[i]) - Max(o.x1[cur], o.x1[i]))
      * Max(0, Min(o.y2[cur], o.y2[i]) - Max(o.y1[cur], o.y1[i]))

\* the test of line 194 with <= replaced by <
OverlapLt(o, areas, cur, i, iou_threshold, epsilon) ==
    LET ious == Intersection(o, cur, i)
        union == areas[cur] + areas[i] - ious
    IN (ious * THR_DEN - iou_threshold * union)
         < (iou_threshold * epsilon * COORD_DEN * COORD_DEN + EPS_DEN - 1) \div EPS_DEN

\* lines 189 and 194: overlap <= iou_threshold, where
\* overlap = ious / (areas[cur] + areas[i] - ious + epsilon).  The inputs of
\* the model make the denominator positive (epsilon > 0), so the test is
\*   ious * THR_DEN * EPS_DEN
\*      <= iou_threshold * (union * EPS_DEN + epsilon * COORD_DEN^2),
\* that is (ious * THR_DEN - iou_threshold * union) * EPS_DEN
\*      <= iou_threshold * epsilon * COORD_DEN^2; the left factor is an
\* integer, so the right side is divided by EPS_DEN and rounded down.
OverlapLeq(o, areas, cur, i, iou_threshold, epsilon) ==
    LET ious == Intersection(o, cur, i)
        union == areas[cur] + areas[i] - ious
    IN (ious * THR_DEN - iou_threshold * union)
         <= (iou_threshold * epsilon * COORD_DEN * COORD_DEN) \div EPS_DEN

\* lines 191-195: the remaining indices that survive the accepted box
Retain(indices, o, areas, cur, iou_threshold, epsilon) ==
    SelectSeq(indices, LAMBDA j : OverlapLeq(o, areas, cur, j, iou_threshold, epsilon))

\* lines 160-196: pop the last index, stop once results is longer than
\* MAX_BOXES, else accept it and filter the rest
RECURSIVE NmsLoop(_, _, _, _, _, _)
NmsLoop(indices, results, o, areas, iou_threshold, epsilon) ==
    IF indices = <<>> THEN results
    ELSE LET cur == indices[Len(indices)]
             rest == SubSeq(indices, 1, Len(indices) - 1)
         IN IF Len(results) > NMS_MAX_BOXES THEN results
            ELSE NmsLoop(Retain(rest, o, areas, cur, iou_threshold, epsilon),
                         Append(results, cur), o, areas, iou_threshold, epsilon)

\* nms, for the order the unstable sort left the indices in
nms(boxes, order, iou_threshold, epsilon, agnostic) ==
    LET o == OffsetBoxes(boxes, UnwrapOr(agnostic, FALSE))
    IN NmsLoop(order, <<>>, o, Areas(o), iou_threshold, UnwrapOr(epsilon, DEFAULT_EPSILON))

(***************************************************************************)
(* Inputs of nms.  Coordinates are in half pixels; FarOff is MAX_WH pixels.*)
(***************************************************************************)
\* most boxes in a set handed to nms
MaxNmsBoxes == 3

FarOff == MAX_WH * COORD_DEN

NmsRows ==
    { Row(0, 0, 20, 20, 90, 0),
      Row(0, 0, 20, 20, 50, 0),
      Row(0, 0, 20, 20, 50, 1),
      Row(10, 0, 30, 20, 50, 0),
      Row(0, 0, 2, 2, 90, 0),
      Row(0, 0, 2, 2, 50, 0),
      Row(6, 6, 6, 6, 50, 0),
      Row(FarOff, FarOff, FarOff + 20, FarOff + 20, 90, 0) }

BoxesOf(rows) ==
    new(Column(rows, 1), Column(rows, 2), Column(rows, 3), Column(rows, 4),
        Column(rows, 5), Column(rows, 6))

\* iou_threshold 0.3 and 0.5
IouThresholds == {3, 5}
\* epsilon None (1e-5) and Some(1.0)
Epsilons == {None, Some(EPS_DEN)}
\* agnostic None (false) and Some(true)
Agnostics == {None, Some(TRUE)}

InitNms ==
    /\ db = empty
    /\ lastOp = NoOp
    /\ pp = NoInstance
    /\ evalCall = IdleEval
    /\ \E rows \in SeqsUpTo(NmsRows, MaxNmsBoxes), t \in IouThresholds,
          e \in Epsilons, a \in Agnostics :
          nmsCall = [state |-> "called", boxes |-> BoxesOf(rows),
                     iou_threshold |-> t, epsilon |-> e, agnostic |-> a]

\* one call of nms: the unstable sort leaves one of the ascending orders
Nms ==
    /\ nmsCall.state = "called"
    /\ \E order \in AscendingOrders(nmsCall.boxes.scores, nmsCall.boxes.len) :
          nmsCall' = [nmsCall EXCEPT !.state = "returned"] @@
                     [order |-> order,
                      results |-> nms(nmsCall.boxes, order, nmsCall.iou_threshold,
                                      nmsCall.epsilon, nmsCall.agnostic)]
    /\ UNCHANGED <<db, lastOp, pp, evalCall>>

NextNms == Nms

SpecNms == InitNms /\ [][NextNms]_vars

\* the position of index i in the sorted order; nms pops from the end, so
\* the higher position is taken first
PosIn(order, i) == CHOOSE p \in 1..Len(order) : order[p] = i

Accepted(results, i) == \E r \in 1..Len(results) : results[r] = i

\* IoU of boxes j and i of the set exceeds t / THR_DEN, with the IoU of the
\* suppressor's geometric test: intersection over (area + area' -
\* intersection + epsilon), taken on the coordinates shifted by
\* class id * MAX_WH unless the call is class-agnostic
IoUExceeds(boxes, agnostic, epsilon, j, i, t) ==
    LET shift(k) == IF agnostic THEN 0 ELSE boxes.classes[k] * MAX_WH * COORD_DEN
        left(k) == boxes.x1[k] + shift(k)
        right(k) == boxes.x2[k] + shift(k)
        top(k) == boxes.y1[k] + shift(k)
        bottom(k) == boxes.y2[k] + shift(k)
        area(k) == Max(0, boxes.x2[k] - boxes.x1[k]) * Max(0, boxes.y2[k] - boxes.y1[k])
        inter == Max(0, Min(right(j), right(i)) - Max(left(j), left(i)))
                   * Max(0, Min(bottom(j), bottom(i)) - Max(top(j), top(i)))
        union == (area(j) + area(i) - inter) * EPS_DEN + epsilon * COORD_DEN * COORD_DEN
    IN inter * EPS_DEN * THR_DEN > t * union

SameBox(boxes, i, j) ==
    /\ boxes.x1[i] = boxes.x1[j]
    /\ boxes.y1[i] = boxes.y1[j]
    /\ boxes.x2[i] = boxes.x2[j]
    /\ boxes.y2[i] = boxes.y2[j]

PositiveArea(boxes, i) == boxes.x2[i] > boxes.x1[i] /\ boxes.y2[i] > boxes.y1[i]

\* C1: nms accepts in descending score order and, when the output cap has not
\* stopped it, an index is in the result exactly when its IoU with every
\* candidate accepted before it is <= the threshold (equal survives, greater
\* is suppressed); two perfectly overlapping same-class boxes of positive
\* area with scores 0.9 and 0.5 at threshold 0.5 and the default epsilon
\* yield only the index of the 0.9 box.
NmsKeepsExactlyUnsuppressed ==
    (nmsCall.state = "returned" /\ Len(nmsCall.results) <= NMS_MAX_BOXES) =>
        LET boxes == nmsCall.boxes
            res == nmsCall.results
            agn == UnwrapOr(nmsCall.agnostic, FALSE)
            eps == UnwrapOr(nmsCall.epsilon, DEFAULT_EPSILON)
            t == nmsCall.iou_threshold
        IN /\ \A a, b \in 1..Len(res) :
                a < b => /\ res[a] # res[b]
                         /\ boxes.scores[res[a]] >= boxes.scores[res[b]]
           /\ \A i \in 1..boxes.len :
                Accepted(res, i) <=>
                    \A j \in 1..boxes.len :
                        (Accepted(res, j) /\ PosIn(nmsCall.order, j) > PosIn(nmsCall.order, i))
                            => ~IoUExceeds(boxes, agn, eps, j, i, t)
           /\ (/\ boxes.len = 2
               /\ SameBox(boxes, 1, 2)
               /\ PositiveArea(boxes, 1)
               /\ boxes.classes[1] = boxes.classes[2]
               /\ boxes.scores[1] = 90
               /\ boxes.scores[2] = 50
               /\ t = 5
               /\ ~nmsCall.epsilon.some)
              => res = <<1>>

\* three boxes at threshold 0.5: the 0.9 box is accepted, its 0.5 twin is
\* suppressed, and the box overlapping it by one third survives
NmsWitness ==
    /\ nmsCall.state = "returned"
    /\ nmsCall.iou_threshold = 5
    /\ nmsCall.boxes.len = 3
    /\ nmsCall.boxes.scores = <<90, 50, 50>>
    /\ nmsCall.boxes.classes = <<0, 0, 0>>
    /\ SameBox(nmsCall.boxes, 1, 2)
    /\ PositiveArea(nmsCall.boxes, 1)
    /\ nmsCall.results = <<1, 3>>

\* C3: with agnostic off no box is removed because of an accepted box of a
\* different class, whatever the coordinates: every index missing from the
\* result exceeds the threshold against an accepted box of its own class
\* taken before it, and two same-location boxes of different classes are both
\* returned; with agnostic on, of two same-location boxes (positive area) of
\* different classes and scores only the higher-scoring one is returned.
NoSuppressionAcrossClasses ==
    (nmsCall.state = "returned" /\ Len(nmsCall.results) <= NMS_MAX_BOXES) =>
        LET boxes == nmsCall.boxes
            res == nmsCall.results
            agn == UnwrapOr(nmsCall.agnostic, FALSE)
            eps == UnwrapOr(nmsCall.epsilon, DEFAULT_EPSILON)
            t == nmsCall.iou_threshold
            pair == /\ boxes.len = 2
                    /\ SameBox(boxes, 1, 2)
                    /\ boxes.classes[1] # boxes.classes[2]
        IN /\ ~agn =>
                \A i \in 1..boxes.len :
                    ~Accepted(res, i) =>
                        \E j \in 1..boxes.len :
                            /\ Accepted(res, j)
                            /\ boxes.classes[j] = boxes.classes[i]
                            /\ PosIn(nmsCall.order, j) > PosIn(nmsCall.order, i)
                            /\ IoUExceeds(boxes, TRUE, eps, j, i, t)
           /\ (~agn /\ pair) => Len(res) = 2
           /\ (/\ agn
               /\ pair
               /\ PositiveArea(boxes, 1)
               /\ ~nmsCall.epsilon.some
               /\ boxes.scores[1] > boxes.scores[2])
              => res = <<1>>

(***************************************************************************)
(* src/src/yolov5/mod.rs: RustPostprocessor::new, box_decode, postprocess  *)
(***************************************************************************)
\* pub const NUM_ANCHOR_LAST: usize = 2
NUM_ANCHOR_LAST == 2
\* const MAX_BOXES: usize = 10_000 of box_decode, scaled down to the size of
\* the inputs of the model
MAX_BOXES == 3
\* let max_nms: usize = 30_000
max_nms == 30000

\* anchors.shape(): the table is a sequence (scale) of sequences (anchor
\* slot) of sequences (the trailing dimension)
Shape(anchors) == <<Len(anchors), Len(anchors[1]), Len(anchors[1][1])>>

\* RustPostprocessor::new: assert_eq!(anchors.shape()[2], NUM_ANCHOR_LAST);
\* strides is stored as given
NewPanics(anchors, strides) == Shape(anchors)[3] # NUM_ANCHOR_LAST

\* a cell of the raw tensor: [bx, by, bw, bh, object_confidence, class_confs @ ..]
Cell(bx, by, bw, bh, obj, confs) ==
    [bx |-> bx, by |-> by, bw |-> bw, bh |-> bh,
     object_confidence |-> obj, class_confs |-> confs]

\* line 84 with > replaced by >=
PassesGeq(cell, c, conf_threshold) ==
    cell.class_confs[c] * cell.object_confidence >= conf_threshold * CONF_DEN

\* line 84: class_confs[i] * object_confidence > conf_threshold
Passes(cell, c, conf_threshold) ==
    cell.class_confs[c] * cell.object_confidence > conf_threshold * CONF_DEN

\* lines 90-93 with ax and ay exchanged
CenteredBoxSwapped(cell, y, x, stride, ax, ay) ==
    [cy |-> ((4 * cell.by - RAW_DEN + 2 * RAW_DEN * y) * stride * COORD_DEN) \div (2 * RAW_DEN),
     cx |-> ((4 * cell.bx - RAW_DEN + 2 * RAW_DEN * x) * stride * COORD_DEN) \div (2 * RAW_DEN),
     h |-> (4 * cell.bh * cell.bh * ax * COORD_DEN) \div (RAW_DEN * RAW_DEN),
     w |-> (4 * cell.bw * cell.bw * ay * COORD_DEN) \div (RAW_DEN * RAW_DEN)]

\* lines 90-93: cy = (by * 2.0 - 0.5 + y) * stride, cx likewise,
\* h = 4.0 * bh * bh * ay, w = 4.0 * bw * bw * ax, in units of 1/COORD_DEN
\* pixel from raw values in units of 1/RAW_DEN (the divisions are exact)
CenteredBox(cell, y, x, stride, ax, ay) ==
    [cy |-> ((4 * cell.by - RAW_DEN + 2 * RAW_DEN * y) * stride * COORD_DEN) \div (2 * RAW_DEN),
     cx |-> ((4 * cell.bx - RAW_DEN + 2 * RAW_DEN * x) * stride * COORD_DEN) \div (2 * RAW_DEN),
     h |-> (4 * cell.bh * cell.bh * ay * COORD_DEN) \div (RAW_DEN * RAW_DEN),
     w |-> (4 * cell.bw * cell.bw * ax * COORD_DEN) \div (RAW_DEN * RAW_DEN)]

\* lines 80-103: the candidates one cell pushes, in class order; y and x are
\* the grid indices, from 0
CellCandidates(cell, y, x, stride, ax, ay, conf_threshold) ==
    IF cell.object_confidence <= conf_threshold THEN <<>>
    ELSE LET candidates == SelectSeq([c \in 1..Len(cell.class_confs) |-> c],
                                     LAMBDA c : Passes(cell, c, conf_threshold))
             box == CenteredBox(cell, y, x, stride, ax, ay)
         IN [k \in 1..Len(candidates) |->
                [cy |-> box.cy, cx |-> box.cx, h |-> box.h, w |-> box.w,
                 score |-> cell.class_confs[candidates[k]] * cell.object_confidence,
                 class |-> candidates[k] - 1]]

RECURSIVE Flatten(_)
Flatten(ss) == IF ss = <<>> THEN <<>> ELSE Head(ss) \o Flatten(Tail(ss))

\* lines 64-111: the candidates of one image at one scale in push order:
\* anchor slots (zipped with the rows of the anchor table), grid rows, grid
\* columns, classes; the anchor pair is multiplied by the stride (line 67)
ImageCandidates(inner_batch, anchors_inner_stride, stride, conf_threshold) ==
    Flatten([a \in 1..Min(Len(anchors_inner_stride), Len(inner_batch)) |->
        LET ax == anchors_inner_stride[a][1] * stride
            ay == anchors_inner_stride[a][2] * stride
            inner_anchor == inner_batch[a]
        IN Flatten([y \in 1..Len(inner_anchor) |->
               Flatten([x \in 1..Len(inner_anchor[y]) |->
                   CellCandidates(inner_anchor[y][x], y - 1, x - 1, stride, ax, ay,
                                  conf_threshold)])])])

\* lines 95-109: push the candidates one by one, counting num_rows; the
\* push that brings num_rows to MAX_BOXES breaks out of every loop
RECURSIVE PushAll(_, _, _)
PushAll(cands, pushed, num_rows) ==
    IF cands = <<>> THEN [broke |-> FALSE, pushed |-> pushed, num_rows |-> num_rows]
    ELSE IF num_rows + 1 >= MAX_BOXES
         THEN [broke |-> TRUE, pushed |-> Append(pushed, Head(cands)),
               num_rows |-> num_rows + 1]
         ELSE PushAll(Tail(cands), Append(pushed, Head(cands)), num_rows + 1)

\* centered_box_to_ltrb_bulk (utils.rs 3-10) on the pushed candidates
centered_box_to_ltrb_bulk(pushed) ==
    [x1 |-> [i \in 1..Len(pushed) |-> pushed[i].cx - pushed[i].w \div 2],
     y1 |-> [i \in 1..Len(pushed) |-> pushed[i].cy - pushed[i].h \div 2],
     x2 |-> [i \in 1..Len(pushed) |-> pushed[i].cx + pushed[i].w \div 2],
     y2 |-> [i \in 1..Len(pushed) |-> pushed[i].cy + pushed[i].h \div 2]]

\* lines 52-118 from scale s, image b on: the break of line 107 leaves the
\* loops without the append of line 116; the append panics on an image index
\* that inputs[0] does not have
RECURSIVE DecodeFrom(_, _, _, _, _, _, _)
DecodeFrom(self, inputs, conf_threshold, s, b, num_rows, detection_boxes) ==
    IF s > Min(Len(self.strides), Min(Len(self.anchors), Len(inputs)))
    THEN [status |-> "ok", boxes |-> detection_boxes]
    ELSE IF b > Len(inputs[s])
    THEN DecodeFrom(self, inputs, conf_threshold, s + 1, 1, num_rows, detection_boxes)
    ELSE LET run == PushAll(ImageCandidates(inputs[s][b], self.anchors[s],
                                            self.strides[s], conf_threshold),
                            <<>>, num_rows)
             ltrb == centered_box_to_ltrb_bulk(run.pushed)
             scores == [i \in 1..Len(run.pushed) |-> run.pushed[i].score]
             classes == [i \in 1..Len(run.pushed) |-> run.pushed[i].class]
         IN IF run.broke THEN [status |-> "ok", boxes |-> detection_boxes]
            ELSE IF b > Len(detection_boxes) THEN [status |-> "panic", boxes |-> <<>>]
            ELSE DecodeFrom(self, inputs, conf_threshold, s, b + 1, run.num_rows,
                     [detection_boxes EXCEPT ![b] =
                         append(@, ltrb.x1, ltrb.y1, ltrb.x2, ltrb.y2, scores, classes)])

\* box_decode: inputs[0] panics on an empty list; one empty set per image
\* of the first tensor
box_decode(self, inputs, conf_threshold) ==
    IF inputs = <<>> THEN [status |-> "panic", boxes |-> <<>>]
    ELSE DecodeFrom(self, inputs, conf_threshold, 1, 1, 0,
                    [b \in 1..Len(inputs[1]) |-> empty])

\* lines 217-219: the set handed to nms
TrimOutcomes(dbox) ==
    IF dbox.len > max_nms
    THEN {SelectRows(dbox, TrimIndices(order, max_nms)) :
            order \in DescendingOrders(dbox.scores, dbox.len)}
    ELSE {dbox}

\* lines 226-240: the records of one image, in the order of the indices
DetectionResults(dbox, indexes) ==
    [k \in 1..Len(indexes) |->
        [index |-> indexes[k] - 1,
         bbox |-> <<dbox.y1[indexes[k]], dbox.x1[indexes[k]],
                    dbox.y2[indexes[k]], dbox.x2[indexes[k]]>>,
         score |-> dbox.scores[indexes[k]],
         class |-> dbox.classes[indexes[k]]]]

\* lines 214-242 for one image: every result the two unstable sorts allow
ImageOutcomes(dbox, iou_threshold, epsilon, agnostic) ==
    UNION {{DetectionResults(d, nms(d, order, iou_threshold, epsilon, agnostic)) :
              order \in AscendingOrders(d.scores, d.len)} : d \in TrimOutcomes(dbox)}

(***************************************************************************)
(* Inputs of the constructor and of eval.                                  *)
(***************************************************************************)
\* most images in one raw tensor
MaxBatch == 2

\* the strides and anchor pairs (w, h) the instances are configured from
StrideTable == <<8, 16>>
AnchorTable == << <<<<10, 10>>, <<4, 6>>>>, <<<<2, 3>>, <<5, 1>>>> >>

\* an anchor table of n scales, two anchor slots, trailing dimension d
AnchorsOf(n, d) ==
    [s \in 1..n |->
        [a \in 1..2 |-> [k \in 1..d |-> IF k <= 2 THEN AnchorTable[s][a][k] ELSE 0]]]

StridesOf(n) == SubSeq(StrideTable, 1, n)

\* cells of two classes; raw offsets in halves, confidences in tenths
CellA == Cell(1, 1, 1, 1, 5, <<9, 9>>)
CellB == Cell(1, 1, 1, 1, 9, <<9, 5>>)
CellC == Cell(2, 0, 2, 1, 10, <<8, 6>>)
CellD == Cell(0, 1, 1, 2, 10, <<5, 6>>)

\* a 2 x 2 grid, by rows
Grid(c00, c01, c10, c11) == << <<c00, c01>>, <<c10, c11>> >>

Quiet == Grid(CellA, CellA, CellA, CellA)

\* images of two anchor slots
ImageS == <<Grid(CellB, CellA, CellA, CellA), Quiet>>
ImageT == <<Grid(CellA, CellC, CellA, CellA), Quiet>>
ImageM == <<Grid(CellA, CellA, CellD, CellB), Quiet>>
ImageN == <<Quiet, Grid(CellA, CellB, CellA, CellA)>>

Images == {ImageS, ImageT, ImageM, ImageN}

Tensors == UNION {[1..n -> Images] : n \in 1..MaxBatch}

InputLists == UNION {[1..n -> Tensors] : n \in 0..Len(StrideTable)}

\* conf_threshold 0.5 and 0.8
ConfThresholds == {5, 8}

\* RustPostProcessor::new
New ==
    \E n \in 1..Len(StrideTable), m \in 1..Len(StrideTable), d \in 1..3 :
        /\ pp' = [state |-> IF NewPanics(AnchorsOf(n, d), StridesOf(m))
                            THEN "panic" ELSE "built",
                  anchors |-> AnchorsOf(n, d), strides |-> StridesOf(m)]
        /\ evalCall' = IdleEval
        /\ UNCHANGED <<db, lastOp, nmsCall>>

\* RustPostProcessor::eval on the instance built last (eval takes &self
\* and keeps nothing, so one call per instance is followed)
Eval ==
    /\ pp.state = "built"
    /\ evalCall.state = "idle"
    /\ \E inputs \in InputLists, t \in ConfThresholds :
        \E decoded \in {box_decode(pp, inputs, t)} :
        \E call \in {[state |-> "returned", inputs |-> inputs, conf_threshold |-> t,
                      iou_threshold |-> 5, epsilon |-> None, agnostic |-> None,
                      status |-> decoded.status, decoded |-> decoded.boxes]} :
           \/ /\ decoded.status = "panic"
              /\ evalCall' = call @@ [results |-> <<>>]
           \/ /\ decoded.status = "ok"
              /\ \E outcomes \in {[b \in 1..Len(decoded.boxes) |->
                                    ImageOutcomes(decoded.boxes[b], 5, None, None)]} :
                 \E results \in [1..Len(decoded.boxes) ->
                                    UNION {outcomes[b] : b \in 1..Len(decoded.boxes)}] :
                    /\ \A b \in 1..Len(decoded.boxes) : results[b] \in outcomes[b]
                    /\ evalCall' = call @@ [results |-> results]
    /\ UNCHANGED <<db, lastOp, nmsCall, pp>>

InitDecode ==
    /\ db = empty
    /\ lastOp = NoOp
    /\ nmsCall = IdleNms
    /\ pp = NoInstance
    /\ evalCall = IdleEval

NextDecode == New \/ Eval

SpecDecode == InitDecode /\ [][NextDecode]_vars

(***************************************************************************)
(* The decoder's contract, stated on the raw input.                        *)
(***************************************************************************)
Returned == evalCall.state = "returned"

\* the decoder's input contract: the instance holds a stride and an anchor
\* row for every tensor of the list (one tensor per detection scale), and
\* an anchor pair for every anchor slot of a tensor
ScalesConfigured ==
    /\ Len(evalCall.inputs) <= Len(pp.anchors)
    /\ Len(evalCall.inputs) <= Len(pp.strides)
    /\ \A s \in 1..Len(evalCall.inputs) : \A b \in 1..Len(evalCall.inputs[s]) :
          Len(evalCall.inputs[s][b]) <= Len(pp.anchors[s])

UniformBatch ==
    /\ evalCall.inputs # <<>>
    /\ \A s \in 1..Len(evalCall.inputs) : Len(evalCall.inputs[s]) = Len(evalCall.inputs[1])

\* every <<scale, image, anchor slot, grid_y, grid_x, class>> of the raw
\* input (grid indices and class from 0) whose objectness and whose
\* class_conf * objectness are both above the threshold
Emitting(inputs, t) ==
    UNION {UNION {UNION {UNION {UNION {
        {<<s, b, a, y - 1, x - 1, c - 1>> :
            c \in {k \in 1..Len(inputs[s][b][a][y][x].class_confs) :
                    /\ inputs[s][b][a][y][x].object_confidence > t
                    /\ inputs[s][b][a][y][x].class_confs[k]
                         * inputs[s][b][a][y][x].object_confidence > t * CONF_DEN}} :
        x \in 1..Len(inputs[s][b][a][y])} :
        y \in 1..Len(inputs[s][b][a])} :
        a \in 1..Len(inputs[s][b])} :
        b \in 1..Len(inputs[s])} :
        s \in 1..Len(inputs)}

CellAt(inputs, u) == inputs[u[1]][u[2]][u[3]][u[4] + 1][u[5] + 1]

\* decode order: scale, image, anchor slot, grid_y, grid_x, class
RECURSIVE LexLess(_, _, _)
LexLess(u, v, k) ==
    IF k > 6 THEN FALSE
    ELSE u[k] < v[k] \/ (u[k] = v[k] /\ LexLess(u, v, k + 1))

\* how many emitting tuples come before u in decode order
Before(inputs, t, u) == Cardinality({v \in Emitting(inputs, t) : LexLess(v, u, 1)})

\* the bag of the values f takes on the set S
BagOfMap(S, f(_)) == [r \in {f(u) : u \in S} |-> Cardinality({u \in S : f(u) = r})]

ScoreClassOf(inputs, u) ==
    [score |-> CellAt(inputs, u).class_confs[u[6] + 1] * CellAt(inputs, u).object_confidence,
     class |-> u[6]]

ScoreClassBag(boxes) ==
    LET n == Len(boxes.scores)
        at(i) == [score |-> boxes.scores[i], class |-> boxes.classes[i]]
    IN BagOfMap(1..n, at)

\* C2: below the decode cap, image b's set holds exactly one candidate, with
\* score class_conf[c] * objectness and class id c, for each (scale, anchor
\* slot, grid_y, grid_x, class c) of image b with objectness > t and
\* class_conf[c] * objectness > t, and nothing else (both comparisons strict).
DecodeEmitsExactlyPassing ==
    (/\ Returned
     /\ evalCall.status = "ok"
     /\ ScalesConfigured
     /\ Cardinality(Emitting(evalCall.inputs, evalCall.conf_threshold)) < MAX_BOXES)
    => \A b \in 1..Len(evalCall.decoded) :
          LET mine == {u \in Emitting(evalCall.inputs, evalCall.conf_threshold) : u[2] = b}
              sc(u) == ScoreClassOf(evalCall.inputs, u)
          IN ScoreClassBag(evalCall.decoded[b]) = BagOfMap(mine, sc)

\* at threshold 0.5 an image whose cells have objectness 0.5 (skipped), a
\* class at 0.5 * 1.0 (not emitted) beside one at 0.6, and a 0.9 * 0.9 class
DecodeWitness ==
    /\ Returned
    /\ evalCall.status = "ok"
    /\ ScalesConfigured
    /\ Cardinality(Emitting(evalCall.inputs, evalCall.conf_threshold)) < MAX_BOXES
    /\ evalCall.conf_threshold = 5
    /\ evalCall.inputs[1][1] = ImageM
    /\ evalCall.decoded[1].scores = <<60, 81>>
    /\ evalCall.decoded[1].classes = <<1, 0>>

\* the row of the emitting tuple u with the anchor pair multiplied by scale:
\* center (raw * 2 - 0.5 + grid index) * stride, size 4 * raw^2 * anchor *
\* scale, corners center -/+ size / 2.  Raw offsets are in halves and the
\* corners in half pixels: cy2 and cx2 are the center, hh and hw half the
\* height and half the width, in half pixels
RowOf(inputs, u, stride, anchor, scale) ==
    LET cell == CellAt(inputs, u)
        cy2 == (2 * cell.by - 1 + 2 * u[4]) * stride
        cx2 == (2 * cell.bx - 1 + 2 * u[5]) * stride
        hh == cell.bh * cell.bh * anchor[2] * scale
        hw == cell.bw * cell.bw * anchor[1] * scale
    IN Row(cx2 - hw, cy2 - hh, cx2 + hw, cy2 + hh,
           cell.class_confs[u[6] + 1] * cell.object_confidence, u[6])

\* the scenario: objectness 0.9, class confidence 0.9, threshold 0.5,
\* stride 8, anchor (10, 10), grid index (0, 0), raw offsets 0.5
Scenario(b) ==
    /\ evalCall.conf_threshold = 5
    /\ pp.strides[1] = 8
    /\ pp.anchors[1][1] = <<10, 10>>
    /\ pp.anchors[1][2] = <<4, 6>>
    /\ b <= Len(evalCall.inputs[1])
    /\ evalCall.inputs[1][b] = ImageS

DecodePre ==
    /\ Returned
    /\ evalCall.status = "ok"
    /\ ScalesConfigured
    /\ Cardinality(Emitting(evalCall.inputs, evalCall.conf_threshold)) < MAX_BOXES

\* C8 as stated: h = 4 * box_h^2 * anchor_h and w = 4 * box_w^2 * anchor_w,
\* so that the scenario decodes to score 0.81 and corners (-1, -1, 9, 9).
DecodedGeometryAsStated ==
    DecodePre =>
        \A b \in 1..Len(evalCall.decoded) :
            LET mine == {u \in Emitting(evalCall.inputs, evalCall.conf_threshold) : u[2] = b}
                row(u) == RowOf(evalCall.inputs, u, pp.strides[u[1]],
                                pp.anchors[u[1]][u[3]], 1)
            IN /\ RowBag(evalCall.decoded[b]) = BagOfMap(mine, row)
               /\ Scenario(b) => RowAt(evalCall.decoded[b], 1) = Row(-2, -2, 18, 18, 81, 0)

\* C8 amended: the anchor pair is multiplied by the stride of its scale,
\* h = 4 * box_h^2 * anchor_h * stride and w = 4 * box_w^2 * anchor_w * stride;
\* centers and corners as stated; the scenario decodes to score 0.81, center
\* (4, 4), h = w = 80 and corners (-36, -36, 44, 44).
DecodedGeometry ==
    DecodePre =>
        \A b \in 1..Len(evalCall.decoded) :
            LET mine == {u \in Emitting(evalCall.inputs, evalCall.conf_threshold) : u[2] = b}
                row(u) == RowOf(evalCall.inputs, u, pp.strides[u[1]],
                                pp.anchors[u[1]][u[3]], pp.strides[u[1]])
            IN /\ RowBag(evalCall.decoded[b]) = BagOfMap(mine, row)
               /\ Scenario(b) => RowAt(evalCall.decoded[b], 1) = Row(-72, -72, 88, 88, 81, 0)

\* the scenario cell decoded at the first scale and again at the second,
\* where the anchor (2, 3) and the stride 16 tell width from height
GeometryWitness ==
    /\ DecodePre
    /\ Scenario(1)
    /\ Len(evalCall.inputs) = 2
    /\ evalCall.inputs[2][1] = ImageS
    /\ evalCall.decoded[1].len = 2
    /\ RowAt(evalCall.decoded[1], 1) = Row(-72, -72, 88, 88, 81, 0)
    /\ RowAt(evalCall.decoded[1], 2) = Row(-16, -32, 48, 64, 81, 0)

\* C4: when the cap is reached only the candidates beyond it are dropped:
\* every candidate emitted before the cap was reached is in the set returned
\* for its image.
CapDropsOnlyBeyondCap ==
    (/\ Returned
     /\ evalCall.status = "ok"
     /\ ScalesConfigured
     /\ UniformBatch
     /\ Cardinality(Emitting(evalCall.inputs, evalCall.conf_threshold)) >= MAX_BOXES)
    => \A b \in 1..Len(evalCall.decoded) :
          LET kept == {u \in Emitting(evalCall.inputs, evalCall.conf_threshold) :
                         /\ u[2] = b
                         /\ Before(evalCall.inputs, evalCall.conf_threshold, u) + 1 < MAX_BOXES}
              sc(u) == ScoreClassOf(evalCall.inputs, u)
          IN BagOfMap(kept, sc) \sqsubseteq ScoreClassBag(evalCall.decoded[b])

\* the batch that holds image b alone
OnlyImage(inputs, b) == [s \in 1..Len(inputs) |-> <<inputs[s][b]>>]

\* C5: the images of a batch are decoded and post-processed independently:
\* image b's set and detection list in the batch are those of the batch that
\* holds image b alone (the cap counts per image).
BatchImagesIndependent ==
    (Returned /\ evalCall.status = "ok" /\ ScalesConfigured /\ UniformBatch) =>
        \A b \in 1..Len(evalCall.decoded) :
            LET alone == box_decode(pp, OnlyImage(evalCall.inputs, b),
                                    evalCall.conf_threshold)
            IN /\ alone.status = "ok"
               /\ evalCall.decoded[b] = alone.boxes[1]
               /\ evalCall.results[b] \in
                     ImageOutcomes(alone.boxes[1], evalCall.iou_threshold,
                                   evalCall.epsilon, evalCall.agnostic)

\* C9: construction fails whenever the anchor table's trailing dimension is
\* not 2 or strides.len() differs from anchors.shape[0]; every instance
\* satisfies anchors.shape[2] == 2 and strides.len() == anchors.shape[0].
InstanceIsConsistent ==
    pp.state = "built" =>
        /\ Shape(pp.anchors)[3] = 2
        /\ Len(pp.strides) = Shape(pp.anchors)[1]

\* C10: a call whose per-scale tensors disagree on batch size, a later scale
\* holding more or fewer images than the first, fails as a whole and returns
\* no detection list.
BatchMismatchFails ==
    (/\ Returned
     /\ evalCall.inputs # <<>>
     /\ ScalesConfigured
     /\ \E s \in 1..Len(evalCall.inputs) : Len(evalCall.inputs[s]) # Len(evalCall.inputs[1]))
    => /\ evalCall.status = "panic"
       /\ evalCall.results = <<>>

====
